---- MODULE Spec2Model ----
(***************************************************************************)
(* pdf-list-templates: the Lambda handler (list_templates_function.py) and *)
(* the listing service (template_list_service.py).                         *)
(*                                                                         *)
(* Python strings that the code splits, joins or suffix-tests are modelled *)
(* as sequences of one-character strings; messages that are only copied   *)
(* are TLA+ strings.  A call result is a record with kind "return" or      *)
(* "raise".                                                                *)
(***************************************************************************)
EXTENDS Naturals, Sequences, FiniteSets, TLC

VARIABLES
    store,        \* the object store: bucket name -> [exists, keys in listing order]
    fault,        \* the failure the store's listing call raises now (NoFault: none)
    fs,           \* the local filesystem: directory path -> [exists, entries]
    containers,   \* per execution environment: the last lambda_handler invocation
    svc           \* the last direct call of list_pdf_templates (the local test's use)

vars == <<store, fault, fs, containers, svc>>

(***************************************************************************)
(* Bounds of the model.                                                    *)
(***************************************************************************)
MaxObjects == 2       \* objects in a bucket, entries in a directory
MaxInvocations == 2   \* invocations counted per execution environment

(***************************************************************************)
(* Python str operations, on sequences of characters.                      *)
(***************************************************************************)
\* str.startswith
startswith(s, p) ==
    /\ Len(p) <= Len(s)
    /\ SubSeq(s, 1, Len(p)) = p

\* str.lower on the letters of the suffix
lower(ch) == IF ch = "P" THEN "p" ELSE IF ch = "D" THEN "d" ELSE IF ch = "F" THEN "f" ELSE ch

\* variant: the suffix test ignores case
endswith_ignorecase(s, p) ==
    /\ Len(p) <= Len(s)
    /\ [i \in 1..Len(p) |-> lower(s[Len(s) - Len(p) + i])] = [i \in 1..Len(p) |-> lower(p[i])]

\* str.endswith, exact (case-sensitive) comparison
endswith(s, p) ==
    /\ Len(p) <= Len(s)
    /\ SubSeq(s, Len(s) - Len(p) + 1, Len(s)) = p

\* the position of the j-th occurrence of sep in s; 0 before the first and
\* Len(s) + 1 after the last
sep_at(s, sep, j) ==
    LET at == {i \in 1..Len(s) : s[i] = sep}
    IN  IF j = 0 THEN 0
        ELSE IF j > Cardinality(at) THEN Len(s) + 1
        ELSE CHOOSE i \in at : Cardinality({k \in at : k <= i}) = j

\* str.split(sep) for a one-character separator: the parts between successive
\* separators, one more part than there are separators
split(s, sep) ==
    [j \in 1..(Cardinality({i \in 1..Len(s) : s[i] = sep}) + 1) |->
        SubSeq(s, sep_at(s, sep, j - 1) + 1, sep_at(s, sep, j) - 1)]

\* sep.join(parts)
RECURSIVE join(_, _)
join(sep, parts) ==
    IF Len(parts) = 0 THEN <<>>
    ELSE IF Len(parts) = 1 THEN parts[1]
    ELSE parts[1] \o <<sep>> \o join(sep, Tail(parts))

\* parts[n:] with a 0-based start, as in split('/')[3:]
slice_from(parts, n) ==
    IF n >= Len(parts) THEN <<>> ELSE SubSeq(parts, n + 1, Len(parts))

\* parts[-1]
last(parts) == parts[Len(parts)]

\* os.path.join(a, b) on POSIX
os_path_join(a, b) ==
    IF Len(b) > 0 /\ b[1] = "/" THEN b
    ELSE IF Len(a) = 0 \/ a[Len(a)] = "/" THEN a \o b
    ELSE a \o <<"/">> \o b

\* the elements of a sequence
Range(s) == {s[i] : i \in 1..Len(s)}

(***************************************************************************)
(* Literals of the code.                                                   *)
(***************************************************************************)
S3Scheme == <<"s","3",":","/","/">>
PdfSuffix == <<".","p","d","f">>

\* lambda_handler's bucket_name and prefix
bucket_name == <<"s","3",":","/","/","a","w","s","-","s","a","m","-","c","l","i","-","m","a","n","a","g","e","d","-","d","e","f","a","u","l","t","-","s","a","m","c","l","i","s","o","u","r","c","e","b","u","c","k","e","t","-","k","d","v","j","q","z","o","e","c","6","p","g">>
prefix == <<"p","d","f","_","t","e","m","p","l","a","t","e","s","/">>

\* list_pdf_templates' default for its prefix parameter
default_prefix == <<"p","d","f","_","t","e","m","p","l","a","t","e","s","/">>

(***************************************************************************)
(* Exceptions.  str(e) is the message an exception carries.                *)
(***************************************************************************)
NoFault == [type |-> "NoFault", message |-> ""]

AccessDenied ==
    [type |-> "ClientError",
     message |-> "An error occurred (AccessDenied) when calling the ListObjectsV2 operation: Access Denied"]

NoSuchBucket ==
    [type |-> "ClientError",
     message |-> "An error occurred (NoSuchBucket) when calling the ListObjectsV2 operation: The specified bucket does not exist"]

InvalidBucketName ==
    [type |-> "ParamValidationError", message |-> "Parameter validation failed: Invalid bucket name"]

\* an exception raised with no arguments, as a stubbed client raises: str(e) is ''
BareException == [type |-> "Exception", message |-> ""]

FileNotFoundError == [type |-> "FileNotFoundError", message |-> "[Errno 2] No such file or directory"]

NotSerializable == [type |-> "TypeError", message |-> "Object of type set is not JSON serializable"]

str(e) == e.message

\* what the listing call can be made to raise
Faults == {AccessDenied, BareException}

(***************************************************************************)
(* The collaborators: the object store's listing call, the directory read  *)
(* and the JSON encoder.                                                   *)
(***************************************************************************)
\* s3.list_objects_v2(Bucket=..., Prefix=...): one page, keys under the prefix in
\* the store's listing order; the response has no 'Contents' when nothing matches
list_objects_v2(Bucket, Prefix) ==
    IF fault # NoFault THEN [kind |-> "raise", exc |-> fault]
    ELSE IF Bucket = <<>> THEN [kind |-> "raise", exc |-> InvalidBucketName]
    ELSE IF Bucket \notin DOMAIN store THEN [kind |-> "raise", exc |-> NoSuchBucket]
    ELSE IF ~store[Bucket].exists THEN [kind |-> "raise", exc |-> NoSuchBucket]
    ELSE LET found == SelectSeq(store[Bucket].keys, LAMBDA k : startswith(k, Prefix))
         IN  IF Len(found) = 0
             THEN [kind |-> "return", value |-> [KeyCount |-> 0]]
             ELSE [kind |-> "return",
                   value |-> [KeyCount |-> Len(found),
                              Contents |-> [i \in 1..Len(found) |-> [Key |-> found[i]]]]]

\* a directory path as the filesystem resolves it: trailing slashes dropped
RECURSIVE normpath(_)
normpath(p) ==
    IF Len(p) > 1 /\ p[Len(p)] = "/" THEN normpath(SubSeq(p, 1, Len(p) - 1)) ELSE p

\* os.listdir(path)
os_listdir(path) ==
    IF normpath(path) \notin DOMAIN fs THEN [kind |-> "raise", exc |-> FileNotFoundError]
    ELSE IF ~fs[normpath(path)].exists THEN [kind |-> "raise", exc |-> FileNotFoundError]
    ELSE [kind |-> "return", value |-> fs[normpath(path)].entries]

\* json.dumps(obj): a JSON document (denoted by the value it encodes), or
\* TypeError for a value JSON has no encoding of
json_dumps(obj) ==
    IF "pytype" \in DOMAIN obj /\ obj.pytype \in {"set", "bytes"}
    THEN [kind |-> "raise", exc |-> NotSerializable]
    ELSE [kind |-> "return", value |-> [json |-> obj]]

(***************************************************************************)
(* template_list_service.list_pdf_templates                                *)
(***************************************************************************)
\* response.get('Contents', [])
contents_of(response) ==
    IF "Contents" \in DOMAIN response THEN response.Contents ELSE <<>>

\* bucket_or_path.split('/')[2]
parse_bucket(bucket_or_path) == split(bucket_or_path, "/")[3]

\* variant: only the first path segment is taken as the prefix
parse_prefix_first_segment(bucket_or_path) ==
    IF Len(split(bucket_or_path, "/")) > 3 THEN split(bucket_or_path, "/")[4] ELSE <<>>

\* '/'.join(bucket_or_path.split('/')[3:])
parse_prefix(bucket_or_path) == join("/", slice_from(split(bucket_or_path, "/"), 3))

\* variant: the key is kept whole, its path not stripped
s3_templates_full_key(contents) ==
    LET kept == SelectSeq(contents, LAMBDA obj : endswith(obj.Key, PdfSuffix))
    IN  [i \in 1..Len(kept) |-> kept[i].Key]

\* [obj['Key'].split('/')[-1] for obj in contents if obj['Key'].endswith('.pdf')]
s3_templates(contents) ==
    LET kept == SelectSeq(contents, LAMBDA obj : endswith(obj.Key, PdfSuffix))
    IN  [i \in 1..Len(kept) |-> last(split(kept[i].Key, "/"))]

\* [f for f in os.listdir(full_path) if f.endswith('.pdf')]
local_templates(entries) == SelectSeq(entries, LAMBDA f : endswith(f, PdfSuffix))

\* how a collaborator's call ended: returned, or raised which exception
ended(call) == IF call.kind = "raise" THEN call ELSE [kind |-> "return"]

\* variant: response['Contents'] instead of response.get('Contents', []), a
\* KeyError when nothing is listed
list_from_s3_keyerror(bucket_or_path) ==
    LET call == list_objects_v2(parse_bucket(bucket_or_path), parse_prefix(bucket_or_path))
        made == <<[api |-> "list_objects_v2",
                   Bucket |-> parse_bucket(bucket_or_path),
                   Prefix |-> parse_prefix(bucket_or_path),
                   result |-> ended(call)]>>
    IN  IF call.kind = "raise"
        THEN [kind |-> "raise", exc |-> call.exc, calls |-> made]
        ELSE IF "Contents" \notin DOMAIN call.value
        THEN [kind |-> "raise", exc |-> [type |-> "KeyError", message |-> "'Contents'"], calls |-> made]
        ELSE [kind |-> "return", value |-> s3_templates(call.value.Contents), calls |-> made]

\* variant: the except clause returns an empty list instead of re-raising
list_from_s3_swallow(bucket_or_path) ==
    LET call == list_objects_v2(parse_bucket(bucket_or_path), parse_prefix(bucket_or_path))
        made == <<[api |-> "list_objects_v2",
                   Bucket |-> parse_bucket(bucket_or_path),
                   Prefix |-> parse_prefix(bucket_or_path),
                   result |-> ended(call)]>>
    IN  IF call.kind = "raise"
        THEN [kind |-> "return", value |-> <<>>, calls |-> made]
        ELSE [kind |-> "return", value |-> s3_templates(contents_of(call.value)), calls |-> made]

\* the remote branch: one listing call inside try/except, the failure re-raised.
\* calls lists the collaborator calls made, in order.
list_from_s3(bucket_or_path) ==
    LET call == list_objects_v2(parse_bucket(bucket_or_path), parse_prefix(bucket_or_path))
        made == <<[api |-> "list_objects_v2",
                   Bucket |-> parse_bucket(bucket_or_path),
                   Prefix |-> parse_prefix(bucket_or_path),
                   result |-> ended(call)]>>
    IN  IF call.kind = "raise"
        THEN [kind |-> "raise", exc |-> call.exc, calls |-> made]
        ELSE [kind |-> "return", value |-> s3_templates(contents_of(call.value)), calls |-> made]

\* the local branch: no guard around the directory read
list_from_directory(bucket_or_path, prefix_param) ==
    LET full_path == os_path_join(bucket_or_path, prefix_param)
        call == os_listdir(full_path)
        made == <<[api |-> "listdir", path |-> full_path, result |-> ended(call)]>>
    IN  IF call.kind = "raise"
        THEN [kind |-> "raise", exc |-> call.exc, calls |-> made]
        ELSE [kind |-> "return", value |-> local_templates(call.value), calls |-> made]

list_pdf_templates(bucket_or_path, prefix_param) ==
    IF startswith(bucket_or_path, S3Scheme)
    THEN list_from_s3(bucket_or_path)
    ELSE list_from_directory(bucket_or_path, prefix_param)

(***************************************************************************)
(* list_templates_function.lambda_handler                                  *)
(***************************************************************************)
JsonHeaders == ("Content-Type" :> "application/json")

NotCalled == [kind |-> "not_called", calls |-> <<>>]

\* the success return: status 200, the list under 'templates'
success_response(templates) ==
    [statusCode |-> 200,
     body |-> json_dumps([templates |-> templates]).value,
     headers |-> JsonHeaders]

\* variant: the failure's text is left out of the body
error_response_generic(e) ==
    [statusCode |-> 500,
     body |-> json_dumps([message |-> "Internal server error", error |-> "Internal server error"]).value,
     headers |-> JsonHeaders]

\* the except clause's return: status 500, generic message, str(e)
error_response(e) ==
    [statusCode |-> 500,
     body |-> json_dumps([message |-> "Internal server error", error |-> str(e)]).value,
     headers |-> JsonHeaders]

\* variant: no except clause, a listing failure leaves the handler as an exception
lambda_handler_no_except(event, context) ==
    IF json_dumps(event).kind = "raise"
    THEN [kind |-> "raise", exc |-> json_dumps(event).exc, listing |-> NotCalled]
    ELSE LET listing == list_pdf_templates(bucket_name, prefix)
         IN  IF listing.kind = "raise"
             THEN [kind |-> "raise", exc |-> listing.exc, listing |-> listing]
             ELSE [kind |-> "return", value |-> success_response(listing.value), listing |-> listing]

\* variant: a module-level cache, the environment's last 200 answer is served again
lambda_handler_cached(event, context) ==
    IF /\ containers[context.log_stream_name].invocations > 0
       /\ containers[context.log_stream_name].outcome.value.statusCode = 200
    THEN containers[context.log_stream_name].outcome
    ELSE IF json_dumps(event).kind = "raise"
    THEN [kind |-> "return", value |-> error_response(json_dumps(event).exc), listing |-> NotCalled]
    ELSE LET listing == list_pdf_templates(bucket_name, prefix)
         IN  IF listing.kind = "raise"
             THEN [kind |-> "return", value |-> error_response(listing.exc), listing |-> listing]
             ELSE [kind |-> "return", value |-> success_response(listing.value), listing |-> listing]

\* the whole handler: log the event, list, answer; any Exception becomes a 500.
\* listing is the call of list_pdf_templates this invocation made, if any.
lambda_handler(event, context) ==
    IF json_dumps(event).kind = "raise"
    THEN [kind |-> "return", value |-> error_response(json_dumps(event).exc), listing |-> NotCalled]
    ELSE LET listing == list_pdf_templates(bucket_name, prefix)
         IN  IF listing.kind = "raise"
             THEN [kind |-> "return", value |-> error_response(listing.exc), listing |-> listing]
             ELSE [kind |-> "return", value |-> success_response(listing.value), listing |-> listing]

(***************************************************************************)
(* The inputs the model draws from.                                        *)
(***************************************************************************)
\* the bucket lambda_handler names
HandlerBucket == <<"a","w","s","-","s","a","m","-","c","l","i","-","m","a","n","a","g","e","d","-","d","e","f","a","u","l","t","-","s","a","m","c","l","i","s","o","u","r","c","e","b","u","c","k","e","t","-","k","d","v","j","q","z","o","e","c","6","p","g">>

\* keys that may be in the handler's bucket:
\* pdf_templates/a.pdf, other/b.pdf, pdf_templates/n.txt
HandlerKeys ==
    { <<"p","d","f","_","t","e","m","p","l","a","t","e","s","/","a",".","p","d","f">>,
      <<"o","t","h","e","r","/","b",".","p","d","f">>,
      <<"p","d","f","_","t","e","m","p","l","a","t","e","s","/","n",".","t","x","t">> }

\* invocation events: an API-gateway style dict, None, and a value json.dumps rejects
Events ==
    { [pytype |-> "dict", httpMethod |-> "GET"],
      [pytype |-> "NoneType"],
      [pytype |-> "set"] }

\* execution environments of the function, each with its own module state
Containers == {"env-1", "env-2"}

\* the bucket and the directory of direct calls: my-bucket, b
MyBucket == <<"m","y","-","b","u","c","k","e","t">>
OtherBucket == <<"b">>

\* keys that may be in my-bucket: pdf_templates/a.pdf, pdf_templates/x/a.pdf,
\* pdf_templates/b.txt, pdf_templates/c.PDF, other/d.pdf, pdf_templates/
ServiceKeys ==
    { <<"p","d","f","_","t","e","m","p","l","a","t","e","s","/","a",".","p","d","f">>,
      <<"p","d","f","_","t","e","m","p","l","a","t","e","s","/","x","/","a",".","p","d","f">>,
      <<"p","d","f","_","t","e","m","p","l","a","t","e","s","/","b",".","t","x","t">>,
      <<"p","d","f","_","t","e","m","p","l","a","t","e","s","/","c",".","P","D","F">>,
      <<"o","t","h","e","r","/","d",".","p","d","f">>,
      <<"p","d","f","_","t","e","m","p","l","a","t","e","s","/">> }

\* prefixes of direct remote calls: pdf_templates/, pdf_templates/x/, other, ''
ServicePrefixes ==
    { <<"p","d","f","_","t","e","m","p","l","a","t","e","s","/">>,
      <<"p","d","f","_","t","e","m","p","l","a","t","e","s","/","x","/">>,
      <<"o","t","h","e","r">>,
      <<>> }

\* 's3://' + B + '/' + P
S3Uri(B, P) == S3Scheme \o B \o <<"/">> \o P

\* the directory of local calls, /home/u/pdf_templates, and its possible entries
TemplateDir == <<"/","h","o","m","e","/","u","/","p","d","f","_","t","e","m","p","l","a","t","e","s">>
FileNames == { <<"a",".","p","d","f">>, <<"b",".","t","x","t">>, <<"c",".","P","D","F">> }

\* local sources: /home/u, /home/u/, /tmp
LocalPaths == { <<"/","h","o","m","e","/","u">>, <<"/","h","o","m","e","/","u","/">>, <<"/","t","m","p">> }

\* sources of direct calls: s3 URIs with and without a path, and local paths
Sources ==
    {S3Uri(B, P) : B \in {MyBucket, OtherBucket}, P \in ServicePrefixes}
        \cup {S3Scheme \o MyBucket}
        \cup LocalPaths

\* sequences without repetition of at most n elements of S
\* whether no element occurs twice in s
NoRepeat(s) == \A i, j \in 1..Len(s) : i # j => s[i] # s[j]

\* the sequences of at most n elements of S
RECURSIVE SeqsUpTo(_, _)
SeqsUpTo(S, n) ==
    IF n = 0 THEN {<<>>}
    ELSE SeqsUpTo(S, n - 1) \cup {Append(s, x) : s \in SeqsUpTo(S, n - 1), x \in S}

\* those without repetition
DistinctSeqs(S, n) == {s \in SeqsUpTo(S, n) : NoRepeat(s)}

\* s without its i-th element
RemoveAt(s, i) == SubSeq(s, 1, i - 1) \o SubSeq(s, i + 1, Len(s))

(***************************************************************************)
(* The handler's state machine: invocations in two execution environments  *)
(* against one store that the outside world changes.                       *)
(***************************************************************************)
NoEvent == [pytype |-> "none"]
NoOutcome == [kind |-> "none"]
NotInvoked == [invocations |-> 0, event |-> NoEvent, outcome |-> NoOutcome, current |-> FALSE]
NoCall == [source |-> <<>>, prefix |-> <<>>, result |-> NotCalled]

\* no container's answer is known to reflect the store any more
Outdated == [c \in Containers |-> [containers[c] EXCEPT !.current = FALSE]]

Init ==
    /\ store = (HandlerBucket :> [exists |-> TRUE, keys |-> <<>>])
    /\ fault = NoFault
    /\ fs = (TemplateDir :> [exists |-> FALSE, entries |-> <<>>])
    /\ containers = [c \in Containers |-> NotInvoked]
    /\ svc = NoCall

\* one invocation of lambda_handler in container c
Invoke(c, event) ==
    /\ containers[c].invocations < MaxInvocations
    /\ containers' = [containers EXCEPT ![c] =
           [invocations |-> @.invocations + 1,
            event |-> event,
            outcome |-> lambda_handler(event, [log_stream_name |-> c]),
            current |-> TRUE]]
    /\ UNCHANGED <<store, fault, fs, svc>>

\* the outside world uploads an object to the handler's bucket
PutObject(k) ==
    /\ Len(store[HandlerBucket].keys) < MaxObjects
    /\ k \notin Range(store[HandlerBucket].keys)
    /\ store' = [store EXCEPT ![HandlerBucket].keys = Append(@, k)]
    /\ containers' = Outdated
    /\ UNCHANGED <<fault, fs, svc>>

\* the outside world deletes an object
DeleteObject(i) ==
    /\ i \in 1..Len(store[HandlerBucket].keys)
    /\ store' = [store EXCEPT ![HandlerBucket].keys = RemoveAt(@, i)]
    /\ containers' = Outdated
    /\ UNCHANGED <<fault, fs, svc>>

\* the store starts or stops failing (permissions, network)
SetFault(f) ==
    /\ f # fault
    /\ fault' = f
    /\ containers' = Outdated
    /\ UNCHANGED <<store, fs, svc>>

Next ==
    \/ \E c \in Containers, event \in Events : Invoke(c, event)
    \/ \E k \in HandlerKeys : PutObject(k)
    \/ \E i \in 1..MaxObjects : DeleteObject(i)
    \/ \E f \in Faults \cup {NoFault} : SetFault(f)

Spec == Init /\ [][Next]_vars

(***************************************************************************)
(* Direct calls of list_pdf_templates, remote and local, on every bounded  *)
(* store and directory.                                                    *)
(***************************************************************************)
\* a bucket or directory that is not there
Missing == [exists |-> FALSE, keys |-> <<>>]
MissingDir == [exists |-> FALSE, entries |-> <<>>]

\* either the store or the directory is populated; the two branches of the
\* service read one each
ServiceInit ==
    /\ \/ /\ store \in [{MyBucket} -> {[exists |-> TRUE, keys |-> ks] :
                            ks \in DistinctSeqs(ServiceKeys, MaxObjects)} \cup {Missing}]
          /\ fault \in Faults \cup {NoFault}
          /\ fs = (TemplateDir :> MissingDir)
       \/ /\ store = (MyBucket :> Missing)
          /\ fault = NoFault
          /\ fs \in [{TemplateDir} -> {[exists |-> TRUE, entries |-> es] :
                            es \in DistinctSeqs(FileNames, MaxObjects)} \cup {MissingDir}]
    /\ containers = [c \in Containers |-> NotInvoked]
    /\ svc = NoCall

\* list_pdf_templates(source, prefix_param)
ListTemplates(source, prefix_param) ==
    /\ svc' = [source |-> source,
               prefix |-> prefix_param,
               result |-> list_pdf_templates(source, prefix_param)]
    /\ UNCHANGED <<store, fault, fs, containers>>

ServiceNext ==
    \E source \in Sources, prefix_param \in {default_prefix, <<>>} :
        ListTemplates(source, prefix_param)

ServiceSpec == ServiceInit /\ [][ServiceNext]_vars

(***************************************************************************)
(* Vocabulary of the properties.                                           *)
(***************************************************************************)
Invoked(c) == containers[c].invocations > 0

\* the envelope container c last returned, and the listing that invocation made
Envelope(c) == containers[c].outcome.value
Listing(c) == containers[c].outcome.listing

\* the keys of bucket B under prefix P, in listing order
KeysUnder(B, P) == SelectSeq(store[B].keys, LAMBDA k : startswith(k, P))

\* the part of key k after its last '/', characterised without split
FinalSegment(k) ==
    CHOOSE t \in {SubSeq(k, i, Len(k)) : i \in 1..(Len(k) + 1)} :
        /\ "/" \notin Range(t)
        /\ Len(t) = Len(k) \/ k[Len(k) - Len(t)] = "/"

\* the last direct call was made, in remote or in local mode
RemoteCall == svc.result.kind # "not_called" /\ startswith(svc.source, S3Scheme)
LocalCall == svc.result.kind # "not_called" /\ ~startswith(svc.source, S3Scheme)

(***************************************************************************)
(* C1.  Whatever the event and whatever the listing does (returns a list   *)
(* or raises), an invocation ends by returning an envelope, never by       *)
(* raising: status 200 or 500, a JSON-encoded body, and the header         *)
(* Content-Type: application/json; 200 exactly when the listing returned.  *)
(***************************************************************************)
C1_AlwaysAnEnvelope ==
    \A c \in Containers :
        Invoked(c) =>
            /\ containers[c].outcome.kind = "return"
            /\ Envelope(c).statusCode \in {200, 500}
            /\ DOMAIN Envelope(c).body = {"json"}
            /\ DOMAIN Envelope(c).headers = {"Content-Type"}
            /\ Envelope(c).headers["Content-Type"] = "application/json"
            /\ Envelope(c).statusCode = 200 <=> Listing(c).kind = "return"

\* one environment answered 200 and the other turned a listing failure into a 500
C1_Witness ==
    \E c, d \in Containers :
        /\ Invoked(c) /\ Envelope(c).statusCode = 200
        /\ Invoked(d) /\ Listing(d).kind = "raise" /\ Envelope(d).statusCode = 500

(***************************************************************************)
(* C2, as claimed.  Whenever the listing raised during an invocation, the  *)
(* answer is a 500 whose message is 'Internal server error' and whose      *)
(* error field is non-empty.                                               *)
(***************************************************************************)
C2_ErrorFieldNonEmpty ==
    \A c \in Containers :
        Invoked(c) /\ Listing(c).kind = "raise" =>
            /\ Envelope(c).statusCode = 500
            /\ Envelope(c).body.json.message = "Internal server error"
            /\ Envelope(c).body.json.error # ""

(***************************************************************************)
(* C2, amended.  Whenever the listing raised during an invocation, the     *)
(* answer is a 500 whose message is 'Internal server error' and whose      *)
(* error field is the string of the failure the store raised: non-empty    *)
(* exactly when that failure carries a message.                            *)
(***************************************************************************)
C2_ErrorFieldIsFailureString ==
    \A c \in Containers :
        Invoked(c) /\ Listing(c).kind = "raise" =>
            /\ Envelope(c).statusCode = 500
            /\ DOMAIN Envelope(c).body.json = {"message", "error"}
            /\ Envelope(c).body.json.message = "Internal server error"
            /\ Envelope(c).body.json.error = Listing(c).calls[1].result.exc.message
            /\ containers[c].current => Envelope(c).body.json.error = fault.message

\* one listing failure with a message and one without, both answered 500
C2_Witness ==
    \E c, d \in Containers :
        /\ Invoked(c) /\ Listing(c).kind = "raise" /\ Envelope(c).body.json.error # ""
        /\ Invoked(d) /\ Listing(d).kind = "raise" /\ Envelope(d).body.json.error = ""

(***************************************************************************)
(* C3, as claimed.  The handler's listing is confined to 'pdf_templates/'  *)
(* of its bucket: every name in a 200 answer is the final segment of a PDF *)
(* key under that prefix, so a PDF key outside it never shows.             *)
(***************************************************************************)
C3_ConfinedToPrefix ==
    \A c \in Containers :
        Invoked(c) /\ containers[c].current /\ Envelope(c).statusCode = 200 =>
            \A name \in Range(Envelope(c).body.json.templates) :
                \E k \in Range(store[HandlerBucket].keys) :
                    /\ startswith(k, prefix)
                    /\ endswith(k, PdfSuffix)
                    /\ FinalSegment(k) = name

(***************************************************************************)
(* C6.  When an invocation's listing request finds no key ending in '.pdf' *)
(* (also when nothing at all is under the requested prefix and the         *)
(* response has no Contents), list_pdf_templates returns the empty list    *)
(* and the answer is a 200 with templates = [].                            *)
(***************************************************************************)
NoPdfListed(c) ==
    /\ Invoked(c) /\ containers[c].current
    /\ Len(Listing(c).calls) = 1
    /\ Listing(c).calls[1].result.kind = "return"
    /\ \A k \in Range(KeysUnder(Listing(c).calls[1].Bucket, Listing(c).calls[1].Prefix)) :
           ~endswith(k, PdfSuffix)

C6_NoMatchIsEmptyList ==
    \A c \in Containers :
        NoPdfListed(c) =>
            /\ Listing(c).kind = "return"
            /\ Listing(c).value = <<>>
            /\ Envelope(c).statusCode = 200
            /\ Envelope(c).body.json.templates = <<>>

\* an environment listed a bucket holding only a .txt key and answered 200, []
C6_Witness ==
    \E c \in Containers :
        /\ NoPdfListed(c)
        /\ Len(store[HandlerBucket].keys) = 1
        /\ Envelope(c).body.json.templates = <<>>

(***************************************************************************)
(* C8, as claimed.  The event is opaque: two invocations that see the same *)
(* store return identical envelopes, whatever their events.                *)
(***************************************************************************)
C8_EventIsOpaque ==
    \A c, d \in Containers :
        /\ Invoked(c) /\ containers[c].current
        /\ Invoked(d) /\ containers[d].current
        => Envelope(c) = Envelope(d)

(***************************************************************************)
(* C9.  Invocations are stateless and idempotent: an invocation changes    *)
(* neither the store, nor the filesystem, nor another environment, and     *)
(* after any earlier invocations in its environment it returns what a      *)
(* first invocation returns for the same event against the same store.     *)
(***************************************************************************)
C9_Stateless ==
    [][\A c \in Containers :
          containers'[c].invocations = containers[c].invocations + 1 =>
              /\ store' = store /\ fault' = fault /\ fs' = fs
              /\ \A d \in Containers \ {c} :
                     /\ containers'[d] = containers[d]
                     /\ (/\ containers[d].invocations = 1
                         /\ containers[d].current
                         /\ containers[d].event = containers'[c].event)
                        => containers'[c].outcome = containers[d].outcome]_vars

\* a second invocation, after a differently answered first one, agrees with
\* another environment's first invocation
C9_Witness ==
    \E c, d \in Containers :
        /\ containers[c].invocations = 2 /\ containers[c].current
        /\ containers[d].invocations = 1 /\ containers[d].current
        /\ containers[c].event = containers[d].event
        /\ containers[c].outcome = containers[d].outcome
        /\ Envelope(c).statusCode = 200
        /\ Envelope(c).body.json.templates # <<>>

(***************************************************************************)
(* Direct calls: what the last remote call listed.                         *)
(***************************************************************************)
\* the store's keys under the bucket and prefix the last remote call requested
Listed == KeysUnder(svc.result.calls[1].Bucket, svc.result.calls[1].Prefix)

\* a remote call whose listing returned, every listed key ending in '.pdf'
OnlyPdfListed ==
    /\ RemoteCall
    /\ svc.result.calls[1].result.kind = "return"
    /\ \A k \in Range(Listed) : endswith(k, PdfSuffix)

(***************************************************************************)
(* C4, as claimed.  In remote mode, when every listed key ends in '.pdf',  *)
(* the result holds exactly the keys' final path segments, each exactly    *)
(* once: none missing and no name twice.                                   *)
(***************************************************************************)
C4_EachNameOnce ==
    OnlyPdfListed =>
        /\ svc.result.kind = "return"
        /\ Range(svc.result.value) = {FinalSegment(k) : k \in Range(Listed)}
        /\ NoRepeat(svc.result.value)

(***************************************************************************)
(* C4, amended.  In remote mode, when every listed key ends in '.pdf', the *)
(* result has one entry per listed key, in listing order, each the key's   *)
(* final path segment: none is missing, and a name occurs as often as      *)
(* there are listed keys ending in it.                                     *)
(***************************************************************************)
C4_OneEntryPerKey ==
    OnlyPdfListed =>
        /\ svc.result.kind = "return"
        /\ Len(svc.result.value) = Len(Listed)
        /\ \A i \in 1..Len(Listed) : svc.result.value[i] = FinalSegment(Listed[i])

\* two listed keys, both PDFs, with the same final segment: the name comes twice
C4_Witness ==
    /\ OnlyPdfListed
    /\ Len(Listed) = 2
    /\ FinalSegment(Listed[1]) = FinalSegment(Listed[2])
    /\ Len(svc.result.value) = 2

(***************************************************************************)
(* C5.  In remote and in local mode every returned name ends in the exact  *)
(* lower-case suffix '.pdf' and comes from a key or directory entry that   *)
(* does; keys and entries that do not end in it (b.txt, c.PDF) contribute  *)
(* nothing, so the result has as many entries as there are such keys.      *)
(***************************************************************************)
\* what the last direct call read: the listed keys, or the directory's entries
ReadEntries ==
    IF RemoteCall THEN Listed ELSE fs[normpath(svc.result.calls[1].path)].entries

C5_OnlyPdfSuffix ==
    svc.result.kind = "return" =>
        /\ \A name \in Range(svc.result.value) :
               /\ Len(name) >= 4
               /\ SubSeq(name, Len(name) - 3, Len(name)) = <<".", "p", "d", "f">>
               /\ \E e \in Range(ReadEntries) :
                      /\ Len(e) >= 4
                      /\ SubSeq(e, Len(e) - 3, Len(e)) = <<".", "p", "d", "f">>
                      /\ FinalSegment(e) = name
        /\ Len(svc.result.value) =
               Cardinality({i \in 1..Len(ReadEntries) :
                   /\ Len(ReadEntries[i]) >= 4
                   /\ SubSeq(ReadEntries[i], Len(ReadEntries[i]) - 3, Len(ReadEntries[i]))
                          = <<".", "p", "d", "f">>})

\* a directory holding a.pdf and c.PDF lists as ['a.pdf']
C5_Witness ==
    /\ LocalCall
    /\ svc.result.kind = "return"
    /\ <<"c", ".", "P", "D", "F">> \in Range(ReadEntries)
    /\ svc.result.value = << <<"a", ".", "p", "d", "f">> >>

(***************************************************************************)
(* C7.  For a source 's3://' + B + '/' + P, with B non-empty and without   *)
(* '/', the one listing call is issued with Bucket = B and Prefix = P,     *)
(* inner and trailing slashes of P kept.                                   *)
(***************************************************************************)
C7_BucketAndPrefixParsed ==
    \A B \in {MyBucket, OtherBucket}, P \in ServicePrefixes :
        svc.result.kind # "not_called" /\ svc.source = S3Uri(B, P) =>
            /\ Len(svc.result.calls) = 1
            /\ svc.result.calls[1].api = "list_objects_v2"
            /\ svc.result.calls[1].Bucket = B
            /\ svc.result.calls[1].Prefix = P

\* 's3://my-bucket/pdf_templates/x/' was listed as my-bucket, 'pdf_templates/x/'
C7_Witness ==
    /\ svc.source = S3Scheme \o MyBucket \o <<"/">> \o prefix \o <<"x", "/">>
    /\ svc.result.calls[1].Bucket = MyBucket
    /\ svc.result.calls[1].Prefix = prefix \o <<"x", "/">>

(***************************************************************************)
(* C10.  A failed listing never becomes a list.  Remote: when the store's  *)
(* listing call fails (a fault, or a bucket that is not there), exactly    *)
(* one listing call was made and its error is what the caller gets, with   *)
(* no result.  Local: a missing directory raises FileNotFoundError.        *)
(***************************************************************************)
C10_FailureIsRaised ==
    /\ RemoteCall /\ (fault # NoFault \/ ~store[MyBucket].exists
                        \/ svc.result.calls[1].Bucket # MyBucket) =>
           /\ Len(svc.result.calls) = 1
           /\ svc.result.kind = "raise"
           /\ "value" \notin DOMAIN svc.result
           /\ svc.result.exc = (IF fault # NoFault THEN fault ELSE NoSuchBucket)
    /\ LocalCall /\ (\A d \in DOMAIN fs : fs[d].exists =>
                        d # normpath(os_path_join(svc.source, svc.prefix))) =>
           /\ svc.result.kind = "raise"
           /\ svc.result.exc.type = "FileNotFoundError"
           /\ "value" \notin DOMAIN svc.result

\* the store denied access and the caller got that very error after one call
C10_Witness ==
    /\ RemoteCall
    /\ fault = AccessDenied
    /\ svc.result.kind = "raise"
    /\ svc.result.exc = AccessDenied
    /\ Len(svc.result.calls) = 1

====
